---- MODULE Spec2Model ----
(***************************************************************************)
(* Model of src/app/app.py: the GitHubAppAuth singleton (credential read   *)
(* from Vault, JWT -> installation token exchange, lazy refresh), the      *)
(* status endpoint that reports on it, and the threads that call into it   *)
(* (the startup warm-up thread and request handler threads).               *)
(*                                                                         *)
(* Every read or write of a field of the shared github_auth object is one  *)
(* step of the calling thread, so steps of different threads interleave    *)
(* the way CPython threads do (the class takes no lock).                   *)
(***************************************************************************)
EXTENDS Integers, FiniteSets, Sequences, TLC

\* ------------------------------------------------------------------ bounds
\* The clock runs from 0 to MaxTime seconds.
MaxTime == 1

\* ------------------------------------------------------ program constants
RefreshMargin == 300
FallbackWindow == 3300
CreatedStatus == 201

\* Lifetimes the token-exchange endpoint gives a token: GitHub's one hour, and
\* one that outlives the refresh margin by a second.
HourLifetime == 3600
ShortLifetime == 301
Lifetimes == {HourLifetime, ShortLifetime}

\* ------------------------------------------------------------------ values
None == "None"
Empty == ""

WarmupThread == "warmup"
HandlerThread == "handler"
Threads == {WarmupThread, HandlerThread}
\* The thread of __main__: it starts the warm-up thread, then runs the server.
MainThread == "main"

\* A token is known by when the backend issued it and for how long; no token
\* has lifetime 0.
NoToken == [iss |-> 0, life |-> 0]
NoData == [app_id |-> None, private_key |-> None, installation_id |-> None]
NoResp == [status |-> 0, token |-> NoToken, expires |-> "absent", T |-> 0]

\* The time at which the backend stops accepting a token it issued.
BackendExpiry(tok) == tok.iss + tok.life

\* Secret payloads the KV read can return: data.get(k) is None for a missing
\* key, and a key can be present with an empty value.
Payloads ==
    { [app_id |-> "123", private_key |-> "pemA", installation_id |-> "456"],
      [app_id |-> "124", private_key |-> "pemB", installation_id |-> "457"],
      [app_id |-> None, private_key |-> "pemA", installation_id |-> "456"],
      [app_id |-> "123", private_key |-> Empty, installation_id |-> "456"],
      [app_id |-> "123", private_key |-> "pemA", installation_id |-> None] }

\* Python truthiness of a credential field: None and "" are falsy.
Truthy(v) == v # None /\ v # Empty

VARIABLES
    now,                \* time.time()
    config,             \* hvac importable, VAULT_TOKEN non-empty
    app_id, private_key, installation_id,
    token, token_expires_at,
    vault_error, github_error, initialized,
    pc,                 \* per thread: where it is
    data,               \* per thread: _load_from_vault's local `data`
    resp,               \* per thread: _get_installation_token's local response
    call,               \* per thread: what its current call has done so far
    obs,                \* the value a call has just returned to its caller
    outage,             \* history: a get_headers call that found Vault unreachable
    req                 \* the route the handler thread is serving, and its step

authState == <<app_id, private_key, installation_id, token, token_expires_at,
               vault_error, github_error, initialized>>
credState == <<app_id, private_key, installation_id>>
locals == <<data, resp, req>>
vars == <<now, config, app_id, private_key, installation_id, token,
          token_expires_at, vault_error, github_error, initialized,
          pc, data, resp, call, obs, outage, req>>

\* -------------------------------------------------- pure parts of the code
\* Variant of available: still true at the recorded expiry.
AvailableAtExpiry == token # NoToken /\ now <= token_expires_at

\* GitHubAppAuth.available
Available == token # NoToken /\ now < token_expires_at

\* Variants of the recorded expiry: the margin is not subtracted; the
\* fallback window is subtracted instead of added.
RecordedExpiryNoMargin(r, t) ==
    IF r.expires = "iso" THEN r.T ELSE t + FallbackWindow
RecordedExpiryWrongSign(r, t) ==
    IF r.expires = "iso" THEN r.T - RefreshMargin ELSE t - FallbackWindow

\* The expiry _get_installation_token records for a 201 response r whose
\* expires_at parses (r.expires = "iso") or is missing/empty, processed at
\* local time t.
RecordedExpiry(r, t) ==
    IF r.expires = "iso" THEN r.T - RefreshMargin ELSE t + FallbackWindow

\* all([self._app_id, self._private_key, self._installation_id])
AllFields(a, k, i) == Truthy(a) /\ Truthy(k) /\ Truthy(i)

\* Variant of the handler: no catch-all clause.
VaultHandlerNoCatchAll(exc) ==
    IF exc = "VaultError" THEN "Vault error" ELSE "uncaught"

\* The except clauses of _load_from_vault: the message recorded for a raised
\* exception ("uncaught" would mean that no clause matches it).
VaultHandler(exc) ==
    IF exc = "VaultError" THEN "Vault error"
    ELSE "Unexpected error reading Vault"

\* The except clauses of _get_installation_token.
GithubHandler(exc) ==
    IF exc = "RequestException" THEN "GitHub API unreachable"
    ELSE "Token exchange error"

\* get_headers' return values.
Headers(tok) == [kind |-> "headers", token |-> tok]
NoHeaders == [kind |-> "none", token |-> NoToken]

\* Variant of the vault status: it follows available.
VaultStatusWhenAvailable == IF Available THEN "connected" ELSE "disconnected"

\* Variant of the vault status: the flag alone decides.
VaultStatusByFlag == IF initialized THEN "connected" ELSE "disconnected"

\* api_status: the "integrations" part of the document; dashboard() pairs
\* the same vault status with vault_error as its reason.
VaultStatus ==
    IF initialized /\ vault_error = None THEN "connected" ELSE "disconnected"
GithubStatus == IF Available THEN "connected" ELSE "disconnected"

\* ---------------------------------------------------------------- threads
InInitialize(p) ==
    p \in {"init_reset_v", "init_reset_g", "load", "w_app", "w_key", "w_inst",
           "validate", "token_io", "w_tok", "w_exp", "set_init", "init_ret"}

\* What a call has done so far: secret reads and POSTs issued, initialize calls
\* made, what get_headers saw when it looked (a token set, the clock before
\* the recorded expiry), what initialize
\* returned, which step failed and why, and the kind of payload read; then,
\* back in _github_get: the headers get_headers returned, the GETs issued, the
\* status code of the answer (0: the request raised), whether the body has the
\* fields the helpers index ("full") or lacks some ("partial"), and what
\* _github_get returns.
NoCall ==
    [reads |-> 0, posts |-> 0, inits |-> 0, hasTok |-> FALSE,
     fresh |-> FALSE, init |-> "none",
     failed |-> "none", why |-> "none", payload |-> "none",
     headers |-> NoHeaders, gets |-> 0, code |-> 0, body |-> "none",
     result |-> "none"]

\* History of the last get_headers call that failed because Vault could not be
\* reached: "pending" once the failure is recorded, "down" once the call has
\* returned None, "_reset" added once some initialize call has cleared
\* vault_error since the failure was recorded, "none" again once an initialize
\* call has succeeded after the return.
OutageOnRecord(t, why) ==
    IF t # WarmupThread /\ why = "unreachable" THEN "pending" ELSE outage
OutageOnReset ==
    CASE outage = "pending" -> "pending_reset"
      [] outage = "down" -> "down_reset"
      [] OTHER -> outage
OutageOnNone(t) ==
    IF call[t].failed = "vault" /\ call[t].why = "unreachable"
    THEN CASE outage = "pending" -> "down"
           [] outage = "pending_reset" -> "down_reset"
           [] OTHER -> outage
    ELSE outage
OutageOnSuccess ==
    IF outage \in {"down", "down_reset"} THEN "none" ELSE outage

\* What one requests.get of _github_get comes to: the status code of the
\* answer, or 0 for a requests.RequestException (timeout, connection error).
OkStatus == 200
NotFoundStatus == 404
GetOutcomes == {OkStatus, NotFoundStatus, 0}

\* A 200 body either holds every field the helpers read or lacks some.
Bodies == {"full", "partial"}

\* The helpers a page calls, in order: home calls get_user_profile, dashboard
\* all four.
Routes == {"home", "dashboard"}
Helpers(route) ==
    IF route = "home"
    THEN <<"get_user_profile">>
    ELSE <<"get_user_profile", "get_recent_commits", "get_workflow_runs",
           "get_packages">>

\* get_recent_commits, get_workflow_runs and get_packages index the fields of
\* each item (c["sha"], r["id"], p["name"]); get_user_profile reads every
\* field with data.get(..., default).
IndexingHelpers == {"get_recent_commits", "get_workflow_runs", "get_packages"}

\* What a helper comes to, from what _github_get returned: None for None, the
\* projected records for a body with every field, a KeyError for a body
\* lacking a field that is indexed.
Project(h, result, body) ==
    CASE result = "none" -> "none"
      [] result = "raised" -> "raised"
      [] OTHER -> IF body = "partial" /\ h \in IndexingHelpers
                  THEN "raised" ELSE "data"

\* The status of the response Flask sends for an exception no handler caught.
InternalErrorStatus == 500

\* No route is being served.
NoReq == [route |-> "none", step |-> 0]

\* Nothing is being returned.
NoObs ==
    [kind |-> "none", thread |-> "nobody", headers |-> NoHeaders,
     call |-> NoCall, resp |-> NoResp, vault |-> None, github_api |-> None,
     reason |-> None, route |-> "none", helper |-> "none", result |-> "none",
     code |-> 0]

Init ==
    /\ now = 0
    /\ config \in [hvac : BOOLEAN, vault_token : BOOLEAN]
    /\ app_id = None /\ private_key = None /\ installation_id = None
    /\ token = NoToken
    /\ token_expires_at = 0
    /\ vault_error = None /\ github_error = None
    /\ initialized = FALSE
    /\ pc = [t \in Threads \cup {MainThread} |->
                CASE t = MainThread -> "boot"
                  [] t = WarmupThread -> "unborn"
                  [] OTHER -> "idle"]
    /\ data = [t \in Threads |-> NoData]
    /\ resp = [t \in Threads |-> NoResp]
    /\ call = [t \in Threads |-> NoCall]
    /\ obs = NoObs
    /\ outage = "none"
    /\ req = NoReq

\* ------------------------------------------------------------------ clock
Tick ==
    /\ now < MaxTime
    /\ now' = now + 1
    /\ UNCHANGED <<config, authState, pc, locals, call, obs, outage>>

\* ------------------------------------------------------- entering the code
\* __main__: auth_thread.start() returns at once and leaves the warm-up thread
\* runnable.
MainSpawn ==
    /\ pc[MainThread] = "boot"
    /\ pc' = [pc EXCEPT ![MainThread] = "spawned", ![WarmupThread] = "start"]
    /\ UNCHANGED <<now, config, authState, locals, call, obs, outage>>

\* Variant of __main__: it joins the warm-up thread before it runs the server.
MainRunAfterWarmup ==
    /\ pc[MainThread] = "spawned"
    /\ pc[WarmupThread] = "done"
    /\ pc' = [pc EXCEPT ![MainThread] = "serving"]
    /\ UNCHANGED <<now, config, authState, locals, call, obs, outage>>

\* __main__: app.run(...) -- from here on the server accepts requests.
MainRun ==
    /\ pc[MainThread] = "spawned"
    /\ pc' = [pc EXCEPT ![MainThread] = "serving"]
    /\ UNCHANGED <<now, config, authState, locals, call, obs, outage>>

\* threading.Thread(target=_try_initial_auth).start(): the warm-up thread
\* calls initialize once.
WarmupStart(t) ==
    /\ t = WarmupThread
    /\ pc[t] = "start"
    /\ pc' = [pc EXCEPT ![t] = "init_reset_v"]
    /\ call' = [call EXCEPT ![t] = [NoCall EXCEPT !.inits = 1]]
    /\ UNCHANGED <<now, config, authState, locals, obs, outage>>

\* Variant of get_headers: it calls initialize whatever available says.
GetHeadersCheckAlwaysInit(t) ==
    /\ t # WarmupThread
    /\ pc[MainThread] = "serving"
    /\ pc[t] = "idle"
    /\ pc' = [pc EXCEPT ![t] = "init_reset_v"]
    /\ call' = [call EXCEPT ![t] =
                   [NoCall EXCEPT !.hasTok = (token # NoToken),
                                  !.fresh = (now < token_expires_at),
                                  !.inits = 1]]
    /\ UNCHANGED <<now, config, authState, locals, obs, outage>>

\* get_headers, `if not self.available:` -- the cached path goes on to build
\* the headers, the other one calls initialize.
GetHeadersCheck(t) ==
    /\ t # WarmupThread
    /\ pc[MainThread] = "serving"
    /\ pc[t] = "idle"
    /\ LET seen == [NoCall EXCEPT !.hasTok = (token # NoToken),
                                  !.fresh = (now < token_expires_at)]
       IN IF Available
          THEN /\ pc' = [pc EXCEPT ![t] = "gh_ret"]
               /\ call' = [call EXCEPT ![t] = seen]
          ELSE /\ pc' = [pc EXCEPT ![t] = "init_reset_v"]
               /\ call' = [call EXCEPT ![t] = [seen EXCEPT !.inits = 1]]
    /\ UNCHANGED <<now, config, authState, locals, obs, outage>>

\* ------------------------------------------------------------- initialize
\* self._vault_error = None
InitResetVault(t) ==
    /\ pc[t] = "init_reset_v"
    /\ vault_error' = None
    /\ pc' = [pc EXCEPT ![t] = "init_reset_g"]
    /\ UNCHANGED <<now, config, credState, token, token_expires_at,
                   github_error, initialized, locals, call, obs>>
    /\ outage' = OutageOnReset

\* self._github_error = None
InitResetGithub(t) ==
    /\ pc[t] = "init_reset_g"
    /\ github_error' = None
    /\ pc' = [pc EXCEPT ![t] = "load"]
    /\ UNCHANGED <<now, config, credState, token, token_expires_at,
                   vault_error, initialized, locals, call, obs, outage>>

\* _load_from_vault failing before it stores anything: it records msg and
\* returns False, and so does initialize (an exception no clause catches
\* would leave initialize instead).
LoadFails(t, msg, why, read) ==
    /\ IF msg = "uncaught"
       THEN /\ call' = [call EXCEPT ![t].init = "raised",
                            ![t].failed = "vault",
                            ![t].why = why,
                            ![t].reads = @ + read]
            /\ UNCHANGED vault_error
       ELSE /\ call' = [call EXCEPT ![t].init = "False",
                            ![t].failed = "vault",
                            ![t].why = why,
                            ![t].reads = @ + read]
            /\ vault_error' = msg
    /\ pc' = [pc EXCEPT ![t] = "init_ret"]
    /\ UNCHANGED <<now, config, credState, token, token_expires_at,
                   github_error, initialized, locals, obs>>
    /\ outage' = OutageOnRecord(t, why)

\* _load_from_vault up to `data = secret["data"]["data"]`: the two
\* configuration checks, is_authenticated(), and the KV read.
LoadFromVault(t) ==
    /\ pc[t] = "load"
    /\ IF ~config.hvac
       THEN LoadFails(t, "hvac library not installed", "not_configured", 0)
       ELSE IF ~config.vault_token
       THEN LoadFails(t, "VAULT_TOKEN not set", "not_configured", 0)
       ELSE \/ LoadFails(t, "Vault authentication failed", "auth_failed", 0)
            \/ \* is_authenticated() (no read yet) or the read raises
               \E exc \in {"VaultError", "ConnectionError"}, read \in {0, 1} :
                  LoadFails(t, VaultHandler(exc),
                            IF exc = "ConnectionError" THEN "unreachable"
                            ELSE "vault_error", read)
            \/ \* the answer has no ["data"]["data"]: KeyError
               LoadFails(t, VaultHandler("KeyError"), "bad_shape", 1)
            \/ \E p \in Payloads :
                  /\ data' = [data EXCEPT ![t] = p]
                  /\ pc' = [pc EXCEPT ![t] = "w_app"]
                  /\ call' = [call EXCEPT
                                ![t].reads = @ + 1,
                                ![t].payload =
                                    IF AllFields(p.app_id, p.private_key,
                                                 p.installation_id)
                                    THEN "complete" ELSE "partial"]
                  /\ UNCHANGED <<now, config, authState, resp, req, obs, outage>>

\* self._app_id = data.get("app_id")
StoreAppId(t) ==
    /\ pc[t] = "w_app"
    /\ app_id' = data[t].app_id
    /\ pc' = [pc EXCEPT ![t] = "w_key"]
    /\ UNCHANGED <<now, config, private_key, installation_id, token,
                   token_expires_at, vault_error, github_error, initialized,
                   locals, call, obs, outage>>

\* self._private_key = data.get("private_key")
StorePrivateKey(t) ==
    /\ pc[t] = "w_key"
    /\ private_key' = data[t].private_key
    /\ pc' = [pc EXCEPT ![t] = "w_inst"]
    /\ UNCHANGED <<now, config, app_id, installation_id, token,
                   token_expires_at, vault_error, github_error, initialized,
                   locals, call, obs, outage>>

\* self._installation_id = data.get("installation_id")
StoreInstallationId(t) ==
    /\ pc[t] = "w_inst"
    /\ installation_id' = data[t].installation_id
    /\ data' = [data EXCEPT ![t] = NoData]
    /\ pc' = [pc EXCEPT ![t] = "validate"]
    /\ UNCHANGED <<now, config, app_id, private_key, token,
                   token_expires_at, vault_error, github_error, initialized,
                   resp, req, call, obs, outage>>

\* if not all([self._app_id, self._private_key, self._installation_id]):
\* the check reads the shared fields, not the local data.
ValidateFields(t) ==
    /\ pc[t] = "validate"
    /\ IF AllFields(app_id, private_key, installation_id)
       THEN /\ pc' = [pc EXCEPT ![t] = "token_io"]
            /\ UNCHANGED <<vault_error, call>>
       ELSE /\ vault_error' = "Missing fields in Vault secret"
            /\ pc' = [pc EXCEPT ![t] = "init_ret"]
            /\ call' = [call EXCEPT ![t].init = "False",
                            ![t].failed = "vault",
                            ![t].why = "incomplete"]
    /\ UNCHANGED <<now, config, credState, token, token_expires_at,
                   github_error, initialized, locals, obs, outage>>

\* _get_installation_token failing: it records msg and returns False, and so
\* does initialize (an exception no clause catches would leave initialize
\* instead).
ExchangeFails(t, msg, why, posted) ==
    /\ IF msg = "uncaught"
       THEN /\ call' = [call EXCEPT ![t].init = "raised",
                            ![t].failed = "github",
                            ![t].why = why,
                            ![t].posts = @ + posted]
            /\ UNCHANGED github_error
       ELSE /\ call' = [call EXCEPT ![t].init = "False",
                            ![t].failed = "github",
                            ![t].why = why,
                            ![t].posts = @ + posted]
            /\ github_error' = msg
    /\ pc' = [pc EXCEPT ![t] = "init_ret"]
    /\ UNCHANGED <<now, config, credState, token, token_expires_at,
                   vault_error, initialized, locals, obs, outage>>

\* _get_installation_token up to `data = resp.json()` and data["token"]:
\* _generate_jwt, the POST, the status check, the body. The backend issues the
\* token at the time of the POST; a response without a usable expires_at is
\* for a token of GitHub's one-hour lifetime.
TokenExchange(t) ==
    /\ pc[t] = "token_io"
    /\ \/ ExchangeFails(t, GithubHandler("SigningError"), "signing", 0)
       \/ ExchangeFails(t, GithubHandler("RequestException"), "unreachable", 1)
       \/ \E code \in {401, 500} :
             /\ code # CreatedStatus
             /\ ExchangeFails(t, "GitHub token exchange failed", "rejected", 1)
       \/ \* 201 whose body is no JSON or has no "token": ValueError, KeyError
          ExchangeFails(t, GithubHandler("KeyError"), "bad_body", 1)
       \/ \E life \in Lifetimes, exp \in {"iso", "absent", "bad"} :
             /\ exp # "iso" => life = HourLifetime
             /\ resp' = [resp EXCEPT ![t] =
                            [status |-> CreatedStatus,
                             token |-> [iss |-> now, life |-> life],
                             expires |-> exp,
                             T |-> IF exp = "iso" THEN now + life ELSE 0]]
             /\ pc' = [pc EXCEPT ![t] = "w_tok"]
             /\ call' = [call EXCEPT ![t].posts = @ + 1]
             /\ UNCHANGED <<now, config, authState, data, req, obs, outage>>

\* self._token = data["token"]
StoreToken(t) ==
    /\ pc[t] = "w_tok"
    /\ token' = resp[t].token
    /\ pc' = [pc EXCEPT ![t] = "w_exp"]
    /\ UNCHANGED <<now, config, credState, token_expires_at, vault_error,
                   github_error, initialized, locals, call, obs, outage>>

\* The expiry: fromisoformat raises ValueError on an expires_at that is no
\* timestamp, after the token has been stored.
StoreExpiry(t) ==
    /\ pc[t] = "w_exp"
    /\ IF resp[t].expires = "bad"
       THEN ExchangeFails(t, GithubHandler("ValueError"), "bad_expiry", 0)
       ELSE /\ token_expires_at' = RecordedExpiry(resp[t], now)
            /\ pc' = [pc EXCEPT ![t] = "set_init"]
            /\ UNCHANGED <<now, config, credState, token, vault_error,
                           github_error, initialized, locals, call, obs,
                           outage>>

\* self._initialized = True; return True
SetInitialized(t) ==
    /\ pc[t] = "set_init"
    /\ initialized' = TRUE
    /\ pc' = [pc EXCEPT ![t] = "init_ret"]
    /\ call' = [call EXCEPT ![t].init = "True"]
    /\ UNCHANGED <<now, config, credState, token, token_expires_at,
                   vault_error, github_error, locals, obs>>
    /\ outage' = OutageOnSuccess

\* ------------------------------------------------------ back in the caller
\* Variant of the caller: get_headers builds headers whatever initialize
\* returned.
InitReturnIgnoresResult(t) ==
    /\ pc[t] = "init_ret"
    /\ obs' = [NoObs EXCEPT !.kind = "initialize", !.thread = t,
                            !.call = call[t], !.resp = resp[t]]
    /\ resp' = [resp EXCEPT ![t] = NoResp]
    /\ IF t = WarmupThread
       THEN /\ pc' = [pc EXCEPT ![t] = "done"]
            /\ call' = [call EXCEPT ![t] = NoCall]
       ELSE /\ pc' = [pc EXCEPT ![t] = "gh_ret"]
            /\ UNCHANGED call
    /\ UNCHANGED <<now, config, authState, data, req, outage>>

\* initialize has returned: _try_initial_auth logs the outcome and the thread
\* ends; get_headers goes on to `return None` when it returned False and to
\* build the headers when it returned True.
InitReturn(t) ==
    /\ pc[t] = "init_ret"
    /\ obs' = [NoObs EXCEPT !.kind = "initialize", !.thread = t,
                            !.call = call[t], !.resp = resp[t]]
    /\ resp' = [resp EXCEPT ![t] = NoResp]
    /\ IF t = WarmupThread
       THEN /\ pc' = [pc EXCEPT ![t] = "done"]
            /\ call' = [call EXCEPT ![t] = NoCall]
       ELSE /\ pc' = [pc EXCEPT ![t] =
                         IF call[t].init = "True" THEN "gh_ret" ELSE "gh_none"]
            /\ UNCHANGED call
    /\ UNCHANGED <<now, config, authState, data, req, outage>>

\* return None (or the exception of initialize passing through)
GetHeadersNone(t) ==
    /\ pc[t] = "gh_none"
    /\ obs' = [NoObs EXCEPT !.kind = "get_headers", !.thread = t,
                            !.call = call[t],
                            !.headers = IF call[t].init = "raised"
                                        THEN [NoHeaders EXCEPT !.kind = "raised"]
                                        ELSE NoHeaders]
    /\ pc' = [pc EXCEPT ![t] = "gg"]
    /\ call' = [call EXCEPT ![t] =
                   [NoCall EXCEPT !.headers =
                       IF call[t].init = "raised"
                       THEN [NoHeaders EXCEPT !.kind = "raised"]
                       ELSE NoHeaders]]
    /\ UNCHANGED <<now, config, authState, locals>>
    /\ outage' = OutageOnNone(t)

\* return {"Authorization": f"token {self._token}", ...}
GetHeadersReturn(t) ==
    /\ pc[t] = "gh_ret"
    /\ obs' = [NoObs EXCEPT !.kind = "get_headers", !.thread = t,
                            !.call = call[t], !.headers = Headers(token)]
    /\ pc' = [pc EXCEPT ![t] = "gg"]
    /\ call' = [call EXCEPT ![t] = [NoCall EXCEPT !.headers = Headers(token)]]
    /\ UNCHANGED <<now, config, authState, locals, outage>>

\* ------------------------------------------------------------- _github_get
\* Variant of _github_get: it issues the GET whatever get_headers returned.
GithubGetWithoutHeaders(t) ==
    /\ pc[t] = "gg"
    /\ \E code \in GetOutcomes, body \in Bodies :
          LET done == [call[t] EXCEPT
                          !.gets = 1, !.code = code,
                          !.body = IF code = OkStatus THEN body ELSE "none",
                          !.result = IF code = OkStatus THEN "json" ELSE "none"]
          IN /\ obs' = [NoObs EXCEPT !.kind = "github_get", !.thread = t,
                                     !.call = done]
             /\ IF req.route = "none"
                THEN /\ pc' = [pc EXCEPT ![t] = "idle"]
                     /\ call' = [call EXCEPT ![t] = NoCall]
                ELSE /\ pc' = [pc EXCEPT ![t] = "helper"]
                     /\ call' = [call EXCEPT ![t] = done]
    /\ UNCHANGED <<now, config, authState, locals, outage>>

\* _github_get after get_headers: `if headers is None: return None`, else one
\* requests.get; status 200 returns resp.json(), any other status and any
\* requests.RequestException return None.  An exception that get_headers let
\* through passes through _github_get as well.
GithubGet(t) ==
    /\ pc[t] = "gg"
    /\ \E code \in GetOutcomes, body \in Bodies :
          LET done ==
                  IF call[t].headers.kind = "headers"
                  THEN [call[t] EXCEPT
                           !.gets = 1, !.code = code,
                           !.body = IF code = OkStatus THEN body ELSE "none",
                           !.result = IF code = OkStatus THEN "json" ELSE "none"]
                  ELSE [call[t] EXCEPT
                           !.result = IF call[t].headers.kind = "raised"
                                      THEN "raised" ELSE "none"]
          IN /\ obs' = [NoObs EXCEPT !.kind = "github_get", !.thread = t,
                                     !.call = done]
             /\ IF req.route = "none"
                THEN /\ pc' = [pc EXCEPT ![t] = "idle"]
                     /\ call' = [call EXCEPT ![t] = NoCall]
                ELSE /\ pc' = [pc EXCEPT ![t] = "helper"]
                     /\ call' = [call EXCEPT ![t] = done]
    /\ UNCHANGED <<now, config, authState, locals, outage>>

\* ------------------------------------------------------- home and dashboard
\* A request for / or /dashboard arrives: the view calls its first helper.
RouteStart(r) ==
    /\ pc[MainThread] = "serving"
    /\ pc[HandlerThread] = "idle"
    /\ req = NoReq
    /\ req' = [route |-> r, step |-> 1]
    /\ UNCHANGED <<now, config, authState, pc, data, resp, call, obs, outage>>

\* A helper takes what _github_get returned and projects it; the view then
\* calls its next helper, or renders once the last one returned, or ends in
\* the exception the helper raised.
HelperReturn(t) ==
    /\ pc[t] = "helper"
    /\ LET h == Helpers(req.route)[req.step]
           out == Project(h, call[t].result, call[t].body)
       IN /\ obs' = [NoObs EXCEPT !.kind = "helper", !.thread = t,
                                  !.route = req.route, !.helper = h,
                                  !.result = out]
          /\ IF out = "raised"
             THEN /\ pc' = [pc EXCEPT ![t] = "route_err"]
                  /\ UNCHANGED req
             ELSE IF req.step < Len(Helpers(req.route))
             THEN /\ pc' = [pc EXCEPT ![t] = "idle"]
                  /\ req' = [req EXCEPT !.step = req.step + 1]
             ELSE /\ pc' = [pc EXCEPT ![t] = "render"]
                  /\ UNCHANGED req
    /\ call' = [call EXCEPT ![t] = NoCall]
    /\ UNCHANGED <<now, config, authState, data, resp, outage>>

\* home and dashboard render the page; dashboard first builds its integrations
\* from the auth object.
RouteRespond(t) ==
    /\ pc[t] = "render"
    /\ obs' = IF req.route = "dashboard"
              THEN [NoObs EXCEPT !.kind = "response", !.thread = t,
                                 !.route = req.route, !.code = OkStatus,
                                 !.vault = VaultStatus,
                                 !.github_api = GithubStatus,
                                 !.reason = vault_error]
              ELSE [NoObs EXCEPT !.kind = "response", !.thread = t,
                                 !.route = req.route, !.code = OkStatus]
    /\ pc' = [pc EXCEPT ![t] = "idle"]
    /\ req' = NoReq
    /\ UNCHANGED <<now, config, authState, data, resp, call, outage>>

\* The exception of a helper leaves the view function: the request ends in
\* Flask's error response.
RouteError(t) ==
    /\ pc[t] = "route_err"
    /\ obs' = [NoObs EXCEPT !.kind = "response", !.thread = t,
                            !.route = req.route,
                            !.code = InternalErrorStatus]
    /\ pc' = [pc EXCEPT ![t] = "idle"]
    /\ req' = NoReq
    /\ UNCHANGED <<now, config, authState, data, resp, call, outage>>

\* ---------------------------------------------------------- health endpoint
\* health returns {"status": "healthy", ...}; it reads nothing of the auth
\* object.
Health ==
    /\ pc[MainThread] = "serving"
    /\ obs' = [NoObs EXCEPT !.kind = "response", !.route = "health",
                            !.code = OkStatus]
    /\ UNCHANGED <<now, config, authState, pc, locals, call, outage>>

\* ---------------------------------------------------------- status endpoint
\* Variant of api_status: it clears the vault error it has reported.
StatusRequestClearsError ==
    /\ pc[MainThread] = "serving"
    /\ obs' = [NoObs EXCEPT !.kind = "status", !.vault = VaultStatus,
                            !.github_api = GithubStatus,
                            !.reason = vault_error]
    /\ vault_error' = None
    /\ UNCHANGED <<now, config, credState, token, token_expires_at,
                   github_error, initialized, pc, locals, call, outage>>

\* api_status builds the document from the auth object.
StatusRequest ==
    /\ pc[MainThread] = "serving"
    /\ obs' = [NoObs EXCEPT !.kind = "status", !.vault = VaultStatus,
                            !.github_api = GithubStatus,
                            !.reason = vault_error]
    /\ UNCHANGED <<now, config, authState, pc, locals, call, outage>>

\* The caller takes the returned value.
Deliver ==
    /\ obs # NoObs
    /\ obs' = NoObs
    /\ UNCHANGED <<now, config, authState, pc, locals, call, outage>>

ThreadStep(t) ==
    \/ WarmupStart(t)
    \/ GetHeadersCheck(t)
    \/ InitResetVault(t)
    \/ InitResetGithub(t)
    \/ LoadFromVault(t)
    \/ StoreAppId(t)
    \/ StorePrivateKey(t)
    \/ StoreInstallationId(t)
    \/ ValidateFields(t)
    \/ TokenExchange(t)
    \/ StoreToken(t)
    \/ StoreExpiry(t)
    \/ SetInitialized(t)
    \/ InitReturn(t)
    \/ GetHeadersNone(t)
    \/ GetHeadersReturn(t)
    \/ GithubGet(t)

\* A returned value is taken by its caller before anything else happens.
Next ==
    \/ Deliver
    \/ /\ obs = NoObs
       /\ \/ Tick
          \/ MainSpawn
          \/ MainRun
          \/ StatusRequest
          \/ Health
          \/ \E t \in Threads : ThreadStep(t)

Spec == Init /\ [][Next]_vars

\* Calls of initialize that do not overlap: a thread enters initialize only
\* while no other thread is inside it.
NextSolo ==
    /\ Next
    /\ Cardinality({t \in Threads : InInitialize(pc'[t])}) <= 1

SpecSolo == Init /\ [][NextSolo]_vars

\* The main thread and the return of values are always scheduled; the warm-up
\* thread is not: its network calls may block for good, which is why it is a
\* thread of its own.  Calls of initialize do not overlap.
SpecLive ==
    /\ Init
    /\ [][NextSolo]_vars
    /\ WF_vars(obs = NoObs /\ MainSpawn)
    /\ WF_vars(obs = NoObs /\ MainRun)
    /\ WF_vars(Deliver)

\* The pages: every _github_get call is the call of a helper of a page being
\* served, and calls of initialize do not overlap.
RouteStep(t) ==
    \/ ThreadStep(t)
    \/ HelperReturn(t)
    \/ RouteRespond(t)
    \/ RouteError(t)

NextRoutes ==
    /\ \/ Deliver
       \/ /\ obs = NoObs
          /\ \/ Tick
             \/ MainSpawn
             \/ MainRun
             \/ StatusRequest
             \/ Health
             \/ \E r \in Routes : RouteStart(r)
             \/ \E t \in Threads : RouteStep(t)
    /\ Cardinality({t \in Threads : InInitialize(pc'[t])}) <= 1
    /\ (pc[HandlerThread] = "idle" /\ pc'[HandlerThread] # "idle")
           => req.route # "none"

SpecRoutes == Init /\ [][NextRoutes]_vars

\* ================================================================== claims

\* C1: in every reachable state the recorded expiry is at most the backend
\* expiry of the cached token minus the 300-second margin.
C1_ExpiryConservative ==
    token # NoToken =>
        token_expires_at <= BackendExpiry(token) - RefreshMargin

\* A get_headers call that found available true when it looked.
CachedCall(c) == c.hasTok /\ c.fresh

\* C2: a get_headers call made while available is true issues no secret read
\* and no POST, calls initialize not at all, changes no field of the auth
\* state, and returns headers built from the cached token.
C2_CachedPathIsPure ==
    /\ [](obs.kind = "get_headers" /\ CachedCall(obs.call) =>
            /\ obs.call.reads = 0
            /\ obs.call.posts = 0
            /\ obs.call.inits = 0
            /\ token # NoToken
            /\ obs.headers = [kind |-> "headers", token |-> token])
    /\ [][\A t \in Threads :
            (pc'[t] # pc[t] /\ (CachedCall(call[t]) \/ CachedCall(call'[t])))
                => UNCHANGED authState]_vars

C2_Witness ==
    /\ obs.kind = "get_headers"
    /\ CachedCall(obs.call)
    /\ obs.headers.kind = "headers"
    /\ obs.headers.token = token
    /\ initialized

\* C3: a get_headers call that found available false makes exactly one
\* initialize call, with at most one secret read and at most one POST, and
\* returns headers when initialize returned True and None when it returned
\* False.
C3_ColdCallInitializesOnce ==
    obs.kind = "get_headers" /\ ~CachedCall(obs.call) =>
        /\ obs.call.inits = 1
        /\ obs.call.reads <= 1
        /\ obs.call.posts <= 1
        /\ obs.call.init \in {"True", "False"}
        /\ obs.call.init = "True" =>
              obs.headers = [kind |-> "headers", token |-> token]
        /\ obs.call.init = "False" => obs.headers = NoHeaders

\* The token had expired, and the one re-initialization succeeded.
C3_Witness ==
    /\ obs.kind = "get_headers"
    /\ obs.call.hasTok /\ ~obs.call.fresh
    /\ obs.call.init = "True"
    /\ obs.call.reads = 1 /\ obs.call.posts = 1
    /\ obs.headers.kind = "headers"

C5_AvailableIff ==
    /\ [](obs.kind = "status" =>
            (obs.github_api = "connected"
                <=> (token # NoToken /\ now < token_expires_at)))
    /\ [][\A t \in Threads :
            (pc[t] = "idle" /\ pc'[t] # "idle") =>
                (pc'[t] = "gh_ret"
                    <=> (token # NoToken /\ now < token_expires_at))]_vars

\* The clock is exactly at the recorded expiry of a cached token.
C5_Witness ==
    /\ obs.kind = "status"
    /\ token # NoToken
    /\ now = token_expires_at
    /\ obs.github_api = "disconnected"

\* C6: the step that records the expiry of a 201 response with an expires_at
\* of T records T - 300.
C6_MarginSubtracted ==
    [][\A t \in Threads :
          (pc[t] = "w_exp" /\ pc'[t] = "set_init" /\ resp[t].expires = "iso")
              => token_expires_at' = resp[t].T - RefreshMargin]_vars

C6_Witness ==
    \E t \in Threads :
        /\ pc[t] = "set_init"
        /\ resp[t].expires = "iso"
        /\ token_expires_at = resp[t].T - RefreshMargin
        /\ now > resp[t].token.iss

\* C7: the step that records the expiry of a 201 response without expires_at
\* records the token's issuance time plus 3300, however long the response took.
C7_FallbackFromIssuance ==
    [][\A t \in Threads :
          (pc[t] = "w_exp" /\ pc'[t] = "set_init" /\ resp[t].expires = "absent")
              => token_expires_at' = resp[t].token.iss + FallbackWindow]_vars

\* C8: a payload with a missing or empty field makes the load fail with the
\* incomplete-secret error and leaves the stored credential complete or
\* entirely unset.
C8_NoPartialCredential ==
    obs.kind = "initialize" /\ obs.call.payload = "partial" =>
        /\ obs.call.failed = "vault"
        /\ obs.call.why = "incomplete"
        /\ vault_error = "Missing fields in Vault secret"
        /\ \/ AllFields(app_id, private_key, installation_id)
           \/ app_id = None /\ private_key = None /\ installation_id = None

\* C9: initialize and get_headers never raise; when a non-overlapped
\* initialize returns, a failed secret read has left vault_error set and
\* github_error unset, a failed token exchange github_error set and
\* vault_error unset, and a success both unset.
C9_ErrorsByDomain ==
    /\ obs.kind \in {"initialize", "get_headers"} =>
          obs.call.init # "raised" /\ obs.headers.kind # "raised"
    /\ obs.kind = "initialize" =>
          CASE obs.call.failed = "vault" ->
                 /\ obs.call.init = "False"
                 /\ vault_error # None /\ github_error = None
            [] obs.call.failed = "github" ->
                 /\ obs.call.init = "False"
                 /\ github_error # None /\ vault_error = None
            [] OTHER ->
                 /\ obs.call.init = "True"
                 /\ vault_error = None /\ github_error = None

\* A token exchange failed after an earlier call had failed at the secret read.
C9_Witness ==
    /\ obs.kind = "initialize"
    /\ obs.thread = HandlerThread
    /\ obs.call.failed = "github"
    /\ obs.call.why = "bad_expiry"
    /\ github_error = "Token exchange error"
    /\ vault_error = None
    /\ pc[WarmupThread] = "done"

\* C10 as stated: a get_headers call that finds Vault unreachable returns
\* None, and from then until an initialize call succeeds the status document
\* says "disconnected" for Vault, with a reason recorded.
C10_DisconnectedUntilSuccess ==
    /\ (obs.kind = "get_headers" /\ obs.call.failed = "vault"
            /\ obs.call.why = "unreachable") => obs.headers = NoHeaders
    /\ (obs.kind = "status" /\ outage \in {"down", "down_reset"}) =>
            obs.vault = "disconnected" /\ obs.reason # None

\* C10, amended: ... and from then until an initialize call of any thread next
\* clears vault_error, the status document says "disconnected" for Vault, with
\* a reason recorded.
C10_DisconnectedUntilReset ==
    /\ (obs.kind = "get_headers" /\ obs.call.failed = "vault"
            /\ obs.call.why = "unreachable") => obs.headers = NoHeaders
    /\ (obs.kind = "status" /\ outage = "down") =>
            obs.vault = "disconnected" /\ obs.reason # None

\* Vault went away after an initialize call had succeeded.
C10_Witness ==
    /\ obs.kind = "status"
    /\ outage = "down"
    /\ initialized
    /\ obs.vault = "disconnected"
    /\ obs.reason = "Unexpected error reading Vault"

\* C11: every _github_get call that got no headers returns None and has issued
\* no GET; every other call has issued exactly one GET and returns the parsed
\* JSON when the status is 200 and None for any other status and for a
\* network exception.
C11_GithubGetOnce ==
    obs.kind = "github_get" =>
        /\ obs.call.headers = NoHeaders =>
              (obs.call.gets = 0 /\ obs.call.result = "none")
        /\ obs.call.headers.kind = "headers" =>
              /\ obs.call.gets = 1
              /\ obs.call.code = OkStatus => obs.call.result = "json"
              /\ obs.call.code # OkStatus => obs.call.result = "none"

C11_Witness ==
    /\ obs.kind = "github_get"
    /\ obs.call.headers.kind = "headers"
    /\ obs.call.gets = 1
    /\ obs.call.code = 0
    /\ obs.call.result = "none"

\* C12: whatever the secret backend, the token exchange and the GitHub API
\* answer (a 200 body lacking expected fields included), every helper returns
\* a record or None and every page ends in its normal response; none ends in
\* an exception nobody caught.
C12_NoUncaughtError ==
    /\ obs.kind = "helper" => obs.result \in {"none", "data"}
    /\ obs.kind = "response" => obs.code = OkStatus

\* C13: the credential, token, expiry, error and initialized fields change
\* only in a step of a thread that is inside initialize; a thread enters
\* initialize only as the warm-up thread at its start, which happens once, or
\* from a get_headers call that found available false; the passage of time,
\* the status endpoint and the health endpoint change neither the auth state
\* nor the position of any thread.
C13_OnlyInitializeWrites ==
    [][/\ authState' # authState =>
             \E t \in Threads : InInitialize(pc[t]) /\ pc'[t] # pc[t]
       /\ \A t \in Threads :
             (~InInitialize(pc[t]) /\ InInitialize(pc'[t])) =>
                 \/ t = WarmupThread /\ pc[t] = "start"
                 \/ t # WarmupThread /\ pc[t] = "idle" /\ ~Available
       /\ pc'[WarmupThread] = "start" => pc[WarmupThread] \in {"unborn", "start"}
       /\ (\/ now' # now
           \/ obs'.kind = "status"
           \/ obs'.kind = "response" /\ obs'.route = "health")
             => UNCHANGED <<authState, pc>>]_vars

C13_Witness ==
    /\ pc[WarmupThread] = "done"
    /\ pc[HandlerThread] = "init_reset_v"
    /\ token # NoToken
    /\ now >= token_expires_at

\* C14: the server comes to accept requests whatever the warm-up thread does
\* (succeed, fail, or never finish); the warm-up thread is started at most
\* once; and whenever the server accepts requests, health can answer at once,
\* with its healthy response, wherever the warm-up thread stands.
C14_ServingWithoutWarmup ==
    /\ <>(pc[MainThread] = "serving")
    /\ [](pc[MainThread] = "serving" /\ obs = NoObs => ENABLED Health)
    /\ [](obs.kind = "response" /\ obs.route = "health" =>
             obs.code = OkStatus)
    /\ [][/\ pc'[WarmupThread] = "unborn" => pc[WarmupThread] = "unborn"
          /\ pc'[WarmupThread] = "start" =>
                pc[WarmupThread] \in {"unborn", "start"}
          /\ pc'[WarmupThread] = "init_reset_v" =>
                pc[WarmupThread] \in {"start", "init_reset_v"}]_vars

C14_Witness ==
    /\ obs.kind = "response"
    /\ obs.route = "health"
    /\ obs.code = OkStatus
    /\ pc[WarmupThread] = "load"

\* An expiry that a response carrying the token tok can have been recorded as:
\* its own expires_at less the margin or, without expires_at, the fallback
\* window counted from a time not before its issuance.
FromOneResponse(tok, exp) ==
    \/ exp = BackendExpiry(tok) - RefreshMargin
    \/ \E t \in tok.iss..MaxTime : exp = t + FallbackWindow

\* Credential fields as one secret read leaves them.
FromOneRead(a, k, i) ==
    \/ a = None /\ k = None /\ i = None
    \/ [app_id |-> a, private_key |-> k, installation_id |-> i] \in Payloads

\* C15: once every initialize call has returned and no failure is recorded
\* (the last re-initialization was a success), the cached token and the
\* recorded expiry come from one token-exchange response and the three
\* credential fields from one secret read, however the calls interleaved.
C15_OneResponseOneRead ==
    (/\ \A t \in Threads : ~InInitialize(pc[t])
     /\ vault_error = None
     /\ github_error = None) =>
        /\ token # NoToken => FromOneResponse(token, token_expires_at)
        /\ FromOneRead(app_id, private_key, installation_id)

\* C16: an initialize call that has issued the token-exchange POST has done
\* its secret read before, and that read returned all three fields; a call
\* whose secret read failed has issued no POST and returns False.
C16_ExchangeOnlyAfterCompleteRead ==
    obs.kind = "initialize" =>
        /\ obs.call.posts >= 1 =>
              (obs.call.reads = 1 /\ obs.call.payload = "complete")
        /\ obs.call.failed = "vault" =>
              (obs.call.posts = 0 /\ obs.call.init = "False")

\* C17: the status document reports vault "connected" exactly when the
\* initialized flag is set and vault_error is unset, and the flag, once set,
\* is never cleared.  (The witness is the reachable state the claim names:
\* vault reported "connected" while available is false, the token having
\* expired with no refresh attempted since.)
C17_VaultConnectedIff ==
    /\ [](obs.kind = "status" =>
            (obs.vault = "connected" <=> (initialized /\ vault_error = None)))
    /\ [][initialized => initialized']_vars

C17_Witness ==
    /\ obs.kind = "status"
    /\ obs.vault = "connected"
    /\ token # NoToken
    /\ now >= token_expires_at
    /\ ~Available
    /\ \A t \in Threads : ~InInitialize(pc[t])

\* C18: when an initialize call returns False, the cached token and the
\* recorded expiry are what they were before the call: in particular the
\* cached token is not the token of the response this call received (every
\* response carries a token of its own).
C18_FailedCallLeavesToken ==
    (obs.kind = "initialize" /\ obs.call.init = "False") =>
        ~(obs.resp.token # NoToken /\ token = obs.resp.token)

\* C19: at the moment a get_headers call returns None, vault_error or
\* github_error holds a failure reason, whatever other initialize call runs
\* at the same time.
C19_ReasonAtReturn ==
    (obs.kind = "get_headers" /\ obs.headers = NoHeaders) =>
        (vault_error # None \/ github_error # None)

====
